---------------------------- MODULE Spec2Model ----------------------------
(***************************************************************************)
(* EcoNet CEIM PhoenixWater: the node impact engine (computeNodeImpact),   *)
(* the time-series loader (loadTimeSeriesCSV) and the batch driver (main). *)
(*                                                                         *)
(* Numbers.  The program computes in double.  The model computes in exact  *)
(* arithmetic: sample fields are integers, the hazard weight w, the        *)
(* reference concentration Cref and the score Kn are rationals <<n, d>>    *)
(* in lowest terms with d > 0.  Rounding, overflow, NaN and infinities of  *)
(* double are outside the model.                                           *)
(*                                                                         *)
(* Types.  ceim_core.hpp declares Sample, ContaminantConfig and NodeConfig *)
(* a second time; main and the test use the fields of node.hpp             *)
(* (waterBody) and contaminant.hpp (unit), which the model follows.        *)
(***************************************************************************)
EXTENDS Integers, Sequences, FiniteSets, TLC

(***************************************************************************)
(* Bounds of the model.                                                    *)
(***************************************************************************)
MaxLen == 4     \* longest series handed to the engine
MaxRows == 4    \* most data lines read from the time-series file

(***************************************************************************)
(* Exact rational arithmetic standing for double.                          *)
(***************************************************************************)
Abs(n) == IF n < 0 THEN -n ELSE n

RECURSIVE Gcd(_, _)
Gcd(a, b) == IF b = 0 THEN a ELSE Gcd(b, a % b)

Norm(n, d) ==
    LET m == IF d < 0 THEN -n ELSE n
        e == Abs(d)
        g == Gcd(Abs(m), e)
    IN  <<m \div g, e \div g>>

Rat(n) == <<n, 1>>
RAdd(a, b) == Norm(a[1] * b[2] + b[1] * a[2], a[2] * b[2])
RMul(a, b) == Norm(a[1] * b[1], a[2] * b[2])
RDiv(a, b) == Norm(a[1] * b[2], a[2] * b[1])
RSign(a) == IF a[1] > 0 THEN 1 ELSE IF a[1] < 0 THEN -1 ELSE 0
RZero == Rat(0)

(***************************************************************************)
(* Inputs of the engine.                                                   *)
(***************************************************************************)
TimeVals == {0, 1, 2}
\* <<Cin, Cout, Q>> of a sample: cleaner outflow, dirtier outflow, and a
\* negative discharge (the type is a plain double; nothing validates it).
MeasureVals == {<<3, 1, 1>>, <<1, 2, 2>>, <<2, 1, -1>>}
SampleVals ==
    {[t |-> tv, Cin |-> m[1], Cout |-> m[2], Q |-> m[3]] :
        tv \in TimeVals, m \in MeasureVals}
WVals == {Rat(0), Rat(2)}
CrefVals == {Rat(-1), Rat(0), Rat(3), <<1, 10>>}
TestNode == [nodeId |-> "TEST-NODE", waterBody |-> "Test Water"]
EngineCfgs ==
    {[id |-> "TEST-C", w |-> wv, Cref |-> cv, unit |-> "mg/L"] :
        wv \in WVals, cv \in CrefVals}

\* The input of tests/test_ceim_core.cpp.
TestCfg == [id |-> "TEST-C", w |-> Rat(1), Cref |-> Rat(10), unit |-> "mg/L"]
TestSeries ==
    << [t |-> 0, Cin |-> 20, Cout |-> 10, Q |-> 1],
       [t |-> 3600, Cin |-> 20, Cout |-> 10, Q |-> 1],
       [t |-> 7200, Cin |-> 20, Cout |-> 10, Q |-> 1] >>

RECURSIVE SeqsUpTo(_, _)
SeqsUpTo(S, n) ==
    IF n = 0 THEN {<<>>}
    ELSE LET shorter == SeqsUpTo(S, n - 1)
         IN  shorter \cup {Append(q, x) : q \in {p \in shorter : Len(p) = n - 1}, x \in S}

(***************************************************************************)
(* computeNodeImpact, piece by piece.                                      *)
(***************************************************************************)
\* NodeImpactResult out{} with Kn = 0.0 and massLoad = 0.0
ZeroResult(node, cfg) ==
    [nodeId |-> node.nodeId, contaminantId |-> cfg.id, Kn |-> RZero, massLoad |-> 0]

\* Variant: the guard tests Cref == 0.0 instead of Cref <= 0.0.
DegenerateInputCrefZeroOnly(cfg, series) == Len(series) = 0 \/ RSign(cfg.Cref) = 0

\* if (series.empty() || cfg.Cref <= 0.0) return out;
DegenerateInput(cfg, series) == Len(series) = 0 \/ RSign(cfg.Cref) <= 0

\* Variant: double lastT = 0.0;
InitialAnchorZero(series) == 0

\* double lastT = series.front().t;
InitialAnchor(series) == series[1].t

\* Variants of the loop body.
\* dM = dC * dt and dK = w * (dC / Cref) * dt: the discharge is forgotten.
LoopBodyNoDischarge(cfg, st, s) ==
    LET dt == s.t - st.lastT
    IN  IF dt <= 0
        THEN [st EXCEPT !.lastT = s.t]
        ELSE LET dC == s.Cin - s.Cout
                 dM == dC * dt
                 dK == RMul(RMul(cfg.w, RDiv(Rat(dC), cfg.Cref)), Rat(dt))
             IN  [lastT |-> s.t,
                  out |-> [st.out EXCEPT !.massLoad = @ + dM, !.Kn = RAdd(@, dK)]]

\* if (dt <= 0.0) continue; the skipped sample does not become the anchor.
LoopBodySkipKeepsAnchor(cfg, st, s) ==
    LET dt == s.t - st.lastT
    IN  IF dt <= 0
        THEN st
        ELSE LET dC == s.Cin - s.Cout
                 Q == s.Q
                 dM == dC * Q * dt
                 dK == RMul(RMul(RMul(cfg.w, RDiv(Rat(dC), cfg.Cref)), Rat(Q)), Rat(dt))
             IN  [lastT |-> s.t,
                  out |-> [st.out EXCEPT !.massLoad = @ + dM, !.Kn = RAdd(@, dK)]]

\* The trailing lastT = s.t is missing: a contributing sample does not
\* become the anchor.
LoopBodyStaleAnchor(cfg, st, s) ==
    LET dt == s.t - st.lastT
    IN  IF dt <= 0
        THEN [st EXCEPT !.lastT = s.t]
        ELSE LET dC == s.Cin - s.Cout
                 Q == s.Q
                 dM == dC * Q * dt
                 dK == RMul(RMul(RMul(cfg.w, RDiv(Rat(dC), cfg.Cref)), Rat(Q)), Rat(dt))
             IN  [lastT |-> st.lastT,
                  out |-> [st.out EXCEPT !.massLoad = @ + dM, !.Kn = RAdd(@, dK)]]

\* dC = s.Cout - s.Cin
LoopBodyReversedDifference(cfg, st, s) ==
    LET dt == s.t - st.lastT
    IN  IF dt <= 0
        THEN [st EXCEPT !.lastT = s.t]
        ELSE LET dC == s.Cout - s.Cin
                 Q == s.Q
                 dM == dC * Q * dt
                 dK == RMul(RMul(RMul(cfg.w, RDiv(Rat(dC), cfg.Cref)), Rat(Q)), Rat(dt))
             IN  [lastT |-> s.t,
                  out |-> [st.out EXCEPT !.massLoad = @ + dM, !.Kn = RAdd(@, dK)]]

\* dK = (dC / Cref) * Q * dt: the hazard weight is forgotten.
LoopBodyNoWeight(cfg, st, s) ==
    LET dt == s.t - st.lastT
    IN  IF dt <= 0
        THEN [st EXCEPT !.lastT = s.t]
        ELSE LET dC == s.Cin - s.Cout
                 Q == s.Q
                 dM == dC * Q * dt
                 dK == RMul(RMul(RDiv(Rat(dC), cfg.Cref), Rat(Q)), Rat(dt))
             IN  [lastT |-> s.t,
                  out |-> [st.out EXCEPT !.massLoad = @ + dM, !.Kn = RAdd(@, dK)]]

\* One iteration of the for loop over st = [lastT, out].
LoopBody(cfg, st, s) ==
    LET dt == s.t - st.lastT
    IN  IF dt <= 0
        THEN [st EXCEPT !.lastT = s.t]
        ELSE LET dC == s.Cin - s.Cout
                 Q == s.Q
                 dM == dC * Q * dt
                 dK == RMul(RMul(RMul(cfg.w, RDiv(Rat(dC), cfg.Cref)), Rat(Q)), Rat(dt))
             IN  [lastT |-> s.t,
                  out |-> [st.out EXCEPT !.massLoad = @ + dM, !.Kn = RAdd(@, dK)]]

RECURSIVE RunLoop(_, _, _, _)
RunLoop(cfg, st, series, i) ==
    IF i > Len(series) THEN st
    ELSE RunLoop(cfg, LoopBody(cfg, st, series[i]), series, i + 1)

\* The whole function, as its callers see it.
computeNodeImpact(node, cfg, series) ==
    IF DegenerateInput(cfg, series) THEN ZeroResult(node, cfg)
    ELSE RunLoop(cfg, [lastT |-> InitialAnchor(series), out |-> ZeroResult(node, cfg)],
                 series, 1).out

(***************************************************************************)
(* The catalogues (qpudata_csv.cpp).                                       *)
(***************************************************************************)
loadPhoenixNodes ==
    << [nodeId |-> "CAP-LP", waterBody |-> "Lake Pleasant"],
       [nodeId |-> "GILA-ESTRELLA", waterBody |-> "Gila River at Estrella Parkway"],
       [nodeId |-> "GILA-KELVIN", waterBody |-> "Gila River at Kelvin"],
       [nodeId |-> "CRB-SALINITY", waterBody |-> "Lower Colorado salinity control"] >>

loadArizonaContaminants ==
    << [id |-> "PFBS", w |-> Rat(1), Cref |-> Rat(4), unit |-> "ng/L"],
       [id |-> "Ecoli", w |-> Rat(3), Cref |-> Rat(235), unit |-> "MPN/100mL"],
       [id |-> "TotalPhosphorus", w |-> Rat(2), Cref |-> <<1, 10>>, unit |-> "mg/L"],
       [id |-> "SalinityTDS", w |-> <<67, 100>>, Cref |-> Rat(800), unit |-> "mg/L"] >>

(***************************************************************************)
(* std::stod on a field, a sequence of characters: skip leading blanks,    *)
(* take an optional sign and the longest run of digits; what follows the   *)
(* digits is ignored.  With no digit there is no conversion and stod       *)
(* throws std::invalid_argument.  (The alphabet of the model has no '.',   *)
(* exponent, hex, inf or nan.)                                             *)
(***************************************************************************)
DigitVal == [c \in {"0", "1", "2", "3", "4", "5", "6", "7", "8", "9"} |->
                CASE c = "0" -> 0 [] c = "1" -> 1 [] c = "2" -> 2 [] c = "3" -> 3
                  [] c = "4" -> 4 [] c = "5" -> 5 [] c = "6" -> 6 [] c = "7" -> 7
                  [] c = "8" -> 8 [] c = "9" -> 9]
IsDigit(c) == c \in DOMAIN DigitVal

RECURSIVE SkipBlanks(_, _)
SkipBlanks(f, i) == IF i <= Len(f) /\ f[i] = " " THEN SkipBlanks(f, i + 1) ELSE i

\* <<value, number of digits consumed>> from position i on
RECURSIVE DigitRun(_, _, _, _)
DigitRun(f, i, acc, n) ==
    IF i <= Len(f) /\ IsDigit(f[i])
    THEN DigitRun(f, i + 1, acc * 10 + DigitVal[f[i]], n + 1)
    ELSE <<acc, n>>

Stod(f) ==
    LET i == SkipBlanks(f, 1)
        signed == i <= Len(f) /\ f[i] \in {"-", "+"}
        j == IF signed THEN i + 1 ELSE i
        run == DigitRun(f, j, 0, 0)
    IN  IF run[2] = 0 THEN [ok |-> FALSE, val |-> 0]
        ELSE [ok |-> TRUE, val |-> IF signed /\ f[i] = "-" THEN -run[1] ELSE run[1]]

(***************************************************************************)
(* operator<< of a double under std::scientific and setprecision(6): one   *)
(* digit, six decimals and a decimal exponent, i.e. the value rounded to   *)
(* seven significant digits.  [sign, mant, exp] stands for the text        *)
(* sign m.mmmmmm e exp, mant being the seven digits as an integer.         *)
(***************************************************************************)
RECURSIVE Pow10(_)
Pow10(k) == IF k = 0 THEN 1 ELSE 10 * Pow10(k - 1)

\* largest e >= 0 with a >= d * 10^e
RECURSIVE ExpUp(_, _, _)
ExpUp(a, d, e) == IF a >= d * 10 THEN ExpUp(a, d * 10, e + 1) ELSE e

\* smallest k >= 0 with a * 10^k >= d
RECURSIVE ExpDown(_, _, _)
ExpDown(a, d, k) == IF a < d THEN ExpDown(a * 10, d, k + 1) ELSE k

\* long division: <<digits so far, remainder>> after n more digits
RECURSIVE LongDiv(_, _, _, _)
LongDiv(m, rem, den, n) ==
    IF n = 0 THEN <<m, rem>>
    ELSE LongDiv(m * 10 + ((rem * 10) \div den), (rem * 10) % den, den, n - 1)

Scientific6(r) ==
    LET a == Abs(r[1])
        d == r[2]
    IN  IF a = 0 THEN [sign |-> 0, mant |-> 0, exp |-> 0]
        ELSE LET up == ExpUp(a, d, 0)
                 down == ExpDown(a, d, 0)
                 e == IF a >= d THEN up ELSE -down
                 num == IF a >= d THEN a ELSE a * Pow10(down)
                 den == IF a >= d THEN d * Pow10(up) ELSE d
                 q == LongDiv(num \div den, num % den, den, 6)
                 roundUp == \/ 2 * q[2] > den
                            \/ 2 * q[2] = den /\ q[1] % 2 = 1
                 m == IF roundUp THEN q[1] + 1 ELSE q[1]
             IN  IF m = Pow10(7)
                 THEN [sign |-> RSign(r), mant |-> Pow10(6), exp |-> e + 1]
                 ELSE [sign |-> RSign(r), mant |-> m, exp |-> e]

(***************************************************************************)
(* Lines of the time-series file.  A line is [nfields, nodeId, cid, t,     *)
(* Cin, Cout, Q]: the number of comma-separated fields and the first six   *)
(* of them; the four numeric fields are sequences of characters.           *)
(***************************************************************************)
Row(n, nid, c, tf, cinf, coutf, qf) ==
    [nfields |-> n, nodeId |-> nid, cid |-> c, t |-> tf, Cin |-> cinf, Cout |-> coutf, Q |-> qf]

GoodRows ==
    {Row(6, k[1], k[2], tf, <<"3">>, <<"1">>, <<"2">>) :
        k \in {<<"CAP-LP", "PFBS">>, <<"CAP-LP", "Ecoli">>, <<"GILA-ESTRELLA", "PFBS">>},
        tf \in {<<"1">>, <<"2">>}}
      \cup {Row(6, "CAP-LP", "Nitrate", <<"1">>, <<"3">>, <<"1">>, <<"2">>)}

BadRows ==
    { Row(6, "CAP-LP", "PFBS", <<"x">>, <<"3">>, <<"1">>, <<"2">>),      \* t = x
      Row(6, "CAP-LP", "PFBS", <<"2">>, <<"3", "x">>, <<"1">>, <<"2">>), \* Cin = 3x
      Row(6, "CAP-LP", "PFBS", <<"2">>, <<"3">>, <<"-">>, <<"2">>),      \* Cout = -
      Row(7, "CAP-LP", "PFBS", <<"2">>, <<"3">>, <<"1">>, <<>>) }        \* Q empty

SkippedRows ==
    { Row(0, "", "", <<>>, <<>>, <<>>, <<>>),                            \* empty line
      Row(5, "CAP-LP", "PFBS", <<"2">>, <<"3">>, <<"1">>, <<>>) }        \* five fields

RowVals == GoodRows \cup BadRows \cup SkippedRows
NoLine == Row(0, "", "", <<>>, <<>>, <<>>, <<>>)

\* std::string key = nodeId + ":" + cid;
KeyOf(nid, c) == nid \o ":" \o c

\* The body of the while loop of loadTimeSeriesCSV on one line:
\* [thrown, byKey], thrown when a std::stod throws.
ParseLine(l, byKey) ==
    IF l.nfields = 0 \/ l.nfields < 6 THEN [thrown |-> FALSE, byKey |-> byKey]
    ELSE LET tv == Stod(l.t)
             cin == Stod(l.Cin)
             cout == Stod(l.Cout)
             q == Stod(l.Q)
         IN  IF ~(tv.ok /\ cin.ok /\ cout.ok /\ q.ok)
             THEN [thrown |-> TRUE, byKey |-> byKey]
             ELSE LET s == [t |-> tv.val, Cin |-> cin.val, Cout |-> cout.val, Q |-> q.val]
                      key == KeyOf(l.nodeId, l.cid)
                  IN  [thrown |-> FALSE,
                       byKey |-> IF key \in DOMAIN byKey
                                 THEN [byKey EXCEPT ![key] = Append(@, s)]
                                 ELSE [k \in DOMAIN byKey \cup {key} |->
                                          IF k = key THEN <<s>> ELSE byKey[k]]]

\* Variant: the separator is forgotten in the key main builds.
LookupKeyNoSeparator(n, c) == n.nodeId \o c.id

\* The key main looks up for the pair (node, cfg).
LookupKey(n, c) == KeyOf(n.nodeId, c.id)

\* The line main writes for a result.
ReportRow(n, c, key, result) ==
    [node_id |-> n.nodeId, waterbody |-> n.waterBody, contaminant |-> c.id,
     stationid |-> key, karma_Kn |-> Scientific6(result.Kn),
     mass_load |-> Scientific6(Rat(result.massLoad)),
     unit_mass |-> c.unit \o "*s/m3"]

\* Variant: the newest line is put first.
WriteLineAtFront(file, row) == <<row>> \o file

\* out << ... << "\n": the line goes to the end of the file.
WriteLine(file, row) == Append(file, row)

ReportHeader ==
    "node_id,waterbody,contaminant,stationid,karma_Kn,mass_load,unit_mass,window_start,window_end,ecoimpactscore,notes"

\* The position after the pair (i, j) of the nested for loops.
NextPair(i, j) ==
    IF j < Len(loadArizonaContaminants) THEN <<i, j + 1>> ELSE <<i + 1, 1>>

(***************************************************************************)
(* State.                                                                  *)
(***************************************************************************)
VARIABLES
    pc,           \* position of the engine call: "idle", "call", "loop", "done"
    node,         \* argument node
    cfg,          \* argument cfg
    series,       \* argument series
    idx,          \* index of the sample the for loop visits next
    lastT,        \* local lastT
    out,          \* local out
    mpc,          \* position of main: "none" when only the engine runs
    line,         \* loadTimeSeriesCSV: the line just read
    nread,        \* data lines read so far
    seriesByKey,  \* main: the map the loader fills
    ni,           \* main: index of the outer loop (nodes)
    ci,           \* main: index of the inner loop (contaminants)
    header,       \* output file: its first line
    report        \* output file: the result lines, in the order written

engineVars == <<pc, node, cfg, series, idx, lastT, out>>
mainVars == <<mpc, line, nread, seriesByKey, ni, ci, header, report>>
vars == <<pc, node, cfg, series, idx, lastT, out,
          mpc, line, nread, seriesByKey, ni, ci, header, report>>

EmptyMap == [k \in {} |-> <<>>]

MainIdle ==
    /\ mpc = "none"
    /\ line = NoLine
    /\ nread = 0
    /\ seriesByKey = EmptyMap
    /\ ni = 0
    /\ ci = 0
    /\ header = ""
    /\ report = <<>>

\* A direct call of the engine, as in tests/test_ceim_core.cpp.
Init ==
    /\ pc = "call"
    /\ node = TestNode
    /\ \/ /\ cfg \in EngineCfgs
          /\ series \in SeqsUpTo(SampleVals, MaxLen)
       \/ /\ cfg = TestCfg
          /\ series = TestSeries
    /\ idx = 0
    /\ lastT = 0
    /\ out = ZeroResult(node, cfg)
    /\ MainIdle

\* ceim_core.cpp 11-21: initialise out; return at once on a degenerate input,
\* else set the anchor and enter the loop
Enter ==
    /\ pc = "call"
    /\ out' = ZeroResult(node, cfg)
    /\ IF DegenerateInput(cfg, series)
       THEN /\ pc' = "done"
            /\ UNCHANGED <<idx, lastT>>
       ELSE /\ lastT' = InitialAnchor(series)
            /\ idx' = 1
            /\ pc' = "loop"
    /\ UNCHANGED <<node, cfg, series>>
    /\ UNCHANGED mainVars

\* ceim_core.cpp 23-42: one iteration of the for loop
LoopStep ==
    /\ pc = "loop"
    /\ idx <= Len(series)
    /\ LET st == LoopBody(cfg, [lastT |-> lastT, out |-> out], series[idx])
       IN  /\ lastT' = st.lastT
           /\ out' = st.out
    /\ idx' = idx + 1
    /\ UNCHANGED <<pc, node, cfg, series>>
    /\ UNCHANGED mainVars

\* ceim_core.cpp 44: return out
Return ==
    /\ pc = "loop"
    /\ idx > Len(series)
    /\ pc' = "done"
    /\ UNCHANGED <<node, cfg, series, idx, lastT, out>>
    /\ UNCHANGED mainVars

Next == Enter \/ LoopStep \/ Return

Spec == Init /\ [][Next]_vars

(***************************************************************************)
(* The batch run: main of main_cli.cpp.                                    *)
(***************************************************************************)
BatchInit ==
    /\ pc = "idle"
    /\ node = TestNode
    /\ cfg = loadArizonaContaminants[1]
    /\ series = <<>>
    /\ idx = 0
    /\ lastT = 0
    /\ out = ZeroResult(node, cfg)
    /\ mpc = "start"
    /\ line = NoLine
    /\ nread = 0
    /\ seriesByKey = EmptyMap
    /\ ni = 0
    /\ ci = 0
    /\ header = ""
    /\ report = <<>>

\* main_cli.cpp 14-17: argc < 3
Usage ==
    /\ mpc = "start"
    /\ mpc' = "exit1"
    /\ UNCHANGED <<line, nread, seriesByKey, ni, ci, header, report>>
    /\ UNCHANGED engineVars

\* qpudata_csv.cpp 130-133: the file does not open; the exception leaves main
LoadOpenFails ==
    /\ mpc = "start"
    /\ mpc' = "aborted"
    /\ UNCHANGED <<line, nread, seriesByKey, ni, ci, header, report>>
    /\ UNCHANGED engineVars

\* qpudata_csv.cpp 135-138: no first line, the loader returns at once
LoadEmptyFile ==
    /\ mpc = "start"
    /\ mpc' = "openout"
    /\ UNCHANGED <<line, nread, seriesByKey, ni, ci, header, report>>
    /\ UNCHANGED engineVars

\* qpudata_csv.cpp 135-138: the first line is read and dropped
LoadHeader ==
    /\ mpc = "start"
    /\ mpc' = "getline"
    /\ UNCHANGED <<line, nread, seriesByKey, ni, ci, header, report>>
    /\ UNCHANGED engineVars

\* qpudata_csv.cpp 140: std::getline yields the next line
GetLine ==
    /\ mpc = "getline"
    /\ nread < MaxRows
    /\ \E l \in RowVals : line' = l
    /\ nread' = nread + 1
    /\ mpc' = "parse"
    /\ UNCHANGED <<seriesByKey, ni, ci, header, report>>
    /\ UNCHANGED engineVars

\* qpudata_csv.cpp 140: end of file, the loader returns
EndOfFile ==
    /\ mpc = "getline"
    /\ mpc' = "openout"
    /\ UNCHANGED <<line, nread, seriesByKey, ni, ci, header, report>>
    /\ UNCHANGED engineVars

\* qpudata_csv.cpp 141-161: the body of the while loop
ParseRow ==
    /\ mpc = "parse"
    /\ LET r == ParseLine(line, seriesByKey)
       IN  /\ seriesByKey' = r.byKey
           /\ mpc' = IF r.thrown THEN "aborted" ELSE "getline"
    /\ UNCHANGED <<line, nread, ni, ci, header, report>>
    /\ UNCHANGED engineVars

\* main_cli.cpp 30-34: the output file does not open
OpenOutFails ==
    /\ mpc = "openout"
    /\ mpc' = "exit1"
    /\ UNCHANGED <<line, nread, seriesByKey, ni, ci, header, report>>
    /\ UNCHANGED engineVars

\* main_cli.cpp 30-37: the output file opens and the header is written
WriteHeader ==
    /\ mpc = "openout"
    /\ header' = ReportHeader
    /\ ni' = 1
    /\ ci' = 1
    /\ mpc' = "pairs"
    /\ UNCHANGED <<line, nread, seriesByKey, report>>
    /\ UNCHANGED engineVars

\* main_cli.cpp 39-45: a pair with no series is skipped
SkipPair ==
    /\ mpc = "pairs"
    /\ ni <= Len(loadPhoenixNodes)
    /\ LookupKey(loadPhoenixNodes[ni], loadArizonaContaminants[ci]) \notin DOMAIN seriesByKey
    /\ ni' = NextPair(ni, ci)[1]
    /\ ci' = NextPair(ni, ci)[2]
    /\ UNCHANGED <<mpc, line, nread, seriesByKey, header, report>>
    /\ UNCHANGED engineVars

\* main_cli.cpp 39-47: a pair with a series calls the engine
CallEngine ==
    /\ mpc = "pairs"
    /\ ni <= Len(loadPhoenixNodes)
    /\ LET key == LookupKey(loadPhoenixNodes[ni], loadArizonaContaminants[ci])
       IN  /\ key \in DOMAIN seriesByKey
           /\ node' = loadPhoenixNodes[ni]
           /\ cfg' = loadArizonaContaminants[ci]
           /\ series' = seriesByKey[key]
    /\ pc' = "call"
    /\ mpc' = "compute"
    /\ UNCHANGED <<idx, lastT, out>>
    /\ UNCHANGED <<line, nread, seriesByKey, ni, ci, header, report>>

\* main_cli.cpp 47-59: the engine has returned, its result is written
EmitRow ==
    /\ mpc = "compute"
    /\ pc = "done"
    /\ report' = WriteLine(report, ReportRow(node, cfg, LookupKey(node, cfg), out))
    /\ ni' = NextPair(ni, ci)[1]
    /\ ci' = NextPair(ni, ci)[2]
    /\ mpc' = "pairs"
    /\ pc' = "idle"
    /\ UNCHANGED <<node, cfg, series, idx, lastT, out>>
    /\ UNCHANGED <<line, nread, seriesByKey, header>>

\* main_cli.cpp 63: return 0
MainReturn ==
    /\ mpc = "pairs"
    /\ ni > Len(loadPhoenixNodes)
    /\ mpc' = "exit0"
    /\ UNCHANGED <<line, nread, seriesByKey, ni, ci, header, report>>
    /\ UNCHANGED engineVars

BatchNext ==
    \/ Usage \/ LoadOpenFails \/ LoadEmptyFile \/ LoadHeader
    \/ GetLine \/ EndOfFile \/ ParseRow
    \/ OpenOutFails \/ WriteHeader
    \/ SkipPair \/ CallEngine \/ EmitRow \/ MainReturn
    \/ Enter \/ LoopStep \/ Return

BatchSpec == BatchInit /\ [][BatchNext]_vars

(***************************************************************************)
(* Properties of the engine, checked under Spec.                           *)
(***************************************************************************)
Positive(r) == r[1] > 0
StrictlyIncreasing(sq) == \A i \in 2..Len(sq) : sq[i].t > sq[i - 1].t
\* sample i of sq ends an interval of positive length
EndsInterval(sq, i) == i >= 2 /\ sq[i].t > sq[i - 1].t

\* sum over i = from..n of (Cin_i - Cout_i) * Q_i * (t_i - t_(i-1))
RECURSIVE MassSum(_, _)
MassSum(sq, from) ==
    IF from > Len(sq) THEN 0
    ELSE (sq[from].Cin - sq[from].Cout) * sq[from].Q * (sq[from].t - sq[from - 1].t)
            + MassSum(sq, from + 1)

\* sum over i = from..n of w * ((Cin_i - Cout_i) / Cref) * Q_i * (t_i - t_(i-1))
RECURSIVE KnSum(_, _, _)
KnSum(c, sq, from) ==
    IF from > Len(sq) THEN RZero
    ELSE RAdd(Norm(c.w[1] * c.Cref[2] * (sq[from].Cin - sq[from].Cout) * sq[from].Q
                        * (sq[from].t - sq[from - 1].t),
                   c.w[2] * c.Cref[1]),
              KnSum(c, sq, from + 1))

\* C1: when the series is empty or Cref <= 0 the call returns Kn = 0 and
\* massLoad = 0 whatever the samples and w are, and the loop is never entered
\* (no sample is visited, so none is accumulated).
C1_DegenerateInputGivesZero ==
    (pc = "done" /\ (Len(series) = 0 \/ cfg.Cref[1] <= 0))
        => /\ out.Kn = RZero
           /\ out.massLoad = 0
           /\ idx = 0

\* a finished call on a non-positive Cref whose series would have contributed
C1_Witness ==
    /\ pc = "done"
    /\ cfg.Cref[1] < 0
    /\ cfg.w[1] > 0
    /\ Len(series) >= 2
    /\ StrictlyIncreasing(series)

\* C2: for strictly increasing timestamps and Cref > 0 the call returns the
\* sums over i = 2..n of dC_i * Q_i * dt_i and of w * (dC_i / Cref) * Q_i * dt_i,
\* each interval weighted by the sample that ends it; a series of constant dC
\* and Q gives dC * Q * (t_n - t_1) and w * (dC / Cref) * Q * (t_n - t_1); the
\* test series gives 72000 and 7200.
C2_StrictlyIncreasingClosedForm ==
    (pc = "done" /\ Positive(cfg.Cref) /\ Len(series) >= 1 /\ StrictlyIncreasing(series))
        => /\ out.massLoad = MassSum(series, 2)
           /\ out.Kn = KnSum(cfg, series, 2)
           /\ (\A i \in 1..Len(series) :
                    /\ series[i].Cin - series[i].Cout = series[1].Cin - series[1].Cout
                    /\ series[i].Q = series[1].Q)
                => LET dC == series[1].Cin - series[1].Cout
                       span == series[Len(series)].t - series[1].t
                   IN  /\ out.massLoad = dC * series[1].Q * span
                       /\ out.Kn = Norm(cfg.w[1] * cfg.Cref[2] * dC * series[1].Q * span,
                                        cfg.w[2] * cfg.Cref[1])
           /\ (series = TestSeries /\ cfg = TestCfg)
                => out.massLoad = 72000 /\ out.Kn = Rat(7200)

\* a finished call on three strictly increasing samples of differing
\* discharge and of differing interval length
C2_Witness ==
    /\ pc = "done"
    /\ Positive(cfg.Cref)
    /\ cfg.w[1] > 0
    /\ Len(series) = 3
    /\ StrictlyIncreasing(series)
    /\ series[2].Q # series[3].Q
    /\ out.massLoad # 0

\* C3 as stated: a sample whose timestamp is <= the timestamp of the most
\* recent earlier sample that added to the accumulators contributes nothing,
\* and becomes the anchor.  (By C4_AnchorIsPrecedingSample the samples that add
\* to the accumulators are those that end an interval of positive length.)
C3_SkipRelativeToLastContributing ==
    [][(/\ pc = "loop"
        /\ idx <= Len(series)
        /\ \E j \in 2..(idx - 1) :
              /\ EndsInterval(series, j)
              /\ \A k \in (j + 1)..(idx - 1) : ~EndsInterval(series, k)
              /\ series[idx].t <= series[j].t)
            => (out' = out /\ lastT' = series[idx].t)]_vars

\* C3 amended: a sample whose timestamp is <= the timestamp of the sample
\* immediately before it in the series contributes nothing, and becomes the
\* anchor of the sample after it.
C3_SkipRelativeToPrecedingSample ==
    [][(/\ pc = "loop"
        /\ 2 <= idx
        /\ idx <= Len(series)
        /\ series[idx].t <= series[idx - 1].t)
            => (out' = out /\ lastT' = series[idx].t)]_vars

\* the loop has passed a sample older than its predecessor, which had
\* contributed, and is about to visit a later one
C3_Witness ==
    /\ pc = "loop"
    /\ idx = 4
    /\ idx <= Len(series)
    /\ EndsInterval(series, 2)
    /\ series[3].t < series[2].t
    /\ lastT = series[3].t
    /\ out.massLoad # 0

\* C4: in any order of timestamps the anchor of sample i >= 2 is the timestamp
\* of sample i - 1; sample i contributes exactly when s_i.t > s_(i-1).t, with
\* dt = s_i.t - s_(i-1).t, and nothing otherwise; two samples of equal
\* timestamp return Kn = 0 and massLoad = 0 like a single sample.
C4_AnchorIsPrecedingSample ==
    [][/\ (pc = "loop" /\ 2 <= idx /\ idx <= Len(series))
            => LET s == series[idx]
                   dt == s.t - series[idx - 1].t
                   dC == s.Cin - s.Cout
               IN  /\ lastT = series[idx - 1].t
                   /\ IF dt > 0
                      THEN /\ out'.massLoad = out.massLoad + dC * s.Q * dt
                           /\ out'.Kn = RAdd(out.Kn,
                                             Norm(cfg.w[1] * cfg.Cref[2] * dC * s.Q * dt,
                                                  cfg.w[2] * cfg.Cref[1]))
                      ELSE out' = out
       /\ (pc' = "done" /\ Len(series) = 2 /\ series[1].t = series[2].t)
            => (out'.Kn = RZero /\ out'.massLoad = 0)]_vars

\* the loop stands after a third sample that contributed relative to a
\* second sample that did not, although it is not later than the first
C4_Witness ==
    /\ pc = "loop"
    /\ idx = 4
    /\ series[2].t < series[1].t
    /\ series[3].t > series[2].t
    /\ series[3].t <= series[1].t
    /\ out.massLoad # 0

\* C5: the result of a call on a non-empty series is the result of the call
\* on the same series with any other Cin, Cout and Q in its first sample, and
\* a single sample returns Kn = 0 and massLoad = 0.
C5_FirstSampleNeverContributes ==
    (pc = "done" /\ Len(series) >= 1)
        => /\ \A m \in MeasureVals :
                computeNodeImpact(node, cfg,
                    [series EXCEPT ![1] = [t |-> series[1].t, Cin |-> m[1],
                                           Cout |-> m[2], Q |-> m[3]]]) = out
           /\ Len(series) = 1 => (out.Kn = RZero /\ out.massLoad = 0)

\* a finished call with a non-zero result whose first sample has a timestamp
\* above zero
C5_Witness ==
    /\ pc = "done"
    /\ Len(series) >= 2
    /\ series[1].t > 0
    /\ out.massLoad # 0
    /\ out.Kn # RZero

\* C9 as stated: with Cref > 0, w > 0 and a contributing sample, Kn and
\* massLoad are positive when every sample has Cin > Cout and negative when
\* every sample has Cin < Cout.
C9_SignFollowsDifference ==
    (/\ pc = "done"
     /\ Positive(cfg.Cref)
     /\ Positive(cfg.w)
     /\ \E i \in 1..Len(series) : EndsInterval(series, i))
        => /\ (\A i \in 1..Len(series) : series[i].Cin > series[i].Cout)
                => (out.Kn[1] > 0 /\ out.massLoad > 0)
           /\ (\A i \in 1..Len(series) : series[i].Cin < series[i].Cout)
                => (out.Kn[1] < 0 /\ out.massLoad < 0)

\* C9 amended: the same, provided every contributing sample has Q > 0.
C9_SignFollowsDifferenceForPositiveDischarge ==
    (/\ pc = "done"
     /\ Positive(cfg.Cref)
     /\ Positive(cfg.w)
     /\ \E i \in 1..Len(series) : EndsInterval(series, i)
     /\ \A i \in 1..Len(series) : EndsInterval(series, i) => series[i].Q > 0)
        => /\ (\A i \in 1..Len(series) : series[i].Cin > series[i].Cout)
                => (out.Kn[1] > 0 /\ out.massLoad > 0)
           /\ (\A i \in 1..Len(series) : series[i].Cin < series[i].Cout)
                => (out.Kn[1] < 0 /\ out.massLoad < 0)

\* a finished call on samples that are all dirtier at the outflow, two of
\* them contributing, with positive discharge
C9_Witness ==
    /\ pc = "done"
    /\ Positive(cfg.Cref)
    /\ Positive(cfg.w)
    /\ Len(series) >= 3
    /\ StrictlyIncreasing(series)
    /\ \A i \in 1..Len(series) : series[i].Cin < series[i].Cout /\ series[i].Q > 0
    /\ out.massLoad < 0

\* C10: at every point of the call Kn * Cref = w * massLoad; hence the
\* returned Kn is (w / Cref) * massLoad (where the quotient exists, Cref # 0),
\* Kn = 0 when w = 0, and for Cref > 0 massLoad is the same under every other
\* w and positive Cref.
C10_KnProportionalToMassLoad ==
    /\ RMul(out.Kn, cfg.Cref) = RMul(cfg.w, Rat(out.massLoad))
    /\ (pc = "done" /\ cfg.Cref[1] # 0)
            => out.Kn = RMul(RDiv(cfg.w, cfg.Cref), Rat(out.massLoad))
    /\ cfg.w = RZero => out.Kn = RZero
    /\ (pc = "done" /\ Positive(cfg.Cref))
            => \A c \in EngineCfgs :
                   Positive(c.Cref) => computeNodeImpact(node, c, series).massLoad = out.massLoad

\* the loop stands between two contributing samples, with a weight other
\* than one and a fractional score
C10_Witness ==
    /\ pc = "loop"
    /\ idx = 3
    /\ idx <= Len(series)
    /\ EndsInterval(series, 2)
    /\ EndsInterval(series, 3)
    /\ cfg.w = Rat(2)
    /\ out.Kn[2] # 1
(***************************************************************************)
(* Properties of the batch run, checked under BatchSpec.                   *)
(***************************************************************************)
Pairs == (1..Len(loadPhoenixNodes)) \X (1..Len(loadArizonaContaminants))
PairKey(p) == loadPhoenixNodes[p[1]].nodeId \o ":" \o loadArizonaContaminants[p[2]].id
HasSeries(p) == PairKey(p) \in DOMAIN seriesByKey
RowsOf(p) ==
    {k \in 1..Len(report) :
        /\ report[k].node_id = loadPhoenixNodes[p[1]].nodeId
        /\ report[k].contaminant = loadArizonaContaminants[p[2]].id}
NodeIndex(id) == CHOOSE i \in 1..Len(loadPhoenixNodes) : loadPhoenixNodes[i].nodeId = id
ContaminantIndex(id) ==
    CHOOSE j \in 1..Len(loadArizonaContaminants) : loadArizonaContaminants[j].id = id

\* C6: the finished report has exactly one row for each pair of the cross
\* product whose key nodeId:contaminantId is in the series map, with the Kn
\* and massLoad that computeNodeImpact returns for the pair and the series of
\* that key (in the report's number format), and no row for any other pair; a
\* series for exactly one pair gives a report of exactly one row.
C6_OneRowPerPairWithSeries ==
    (mpc = "exit0")
        => /\ \A p \in Pairs :
                IF HasSeries(p)
                THEN /\ Cardinality(RowsOf(p)) = 1
                     /\ \A k \in RowsOf(p) :
                          LET res == computeNodeImpact(loadPhoenixNodes[p[1]],
                                                       loadArizonaContaminants[p[2]],
                                                       seriesByKey[PairKey(p)])
                          IN  /\ report[k].karma_Kn = Scientific6(res.Kn)
                              /\ report[k].mass_load = Scientific6(Rat(res.massLoad))
                ELSE RowsOf(p) = {}
           /\ Len(report) = Cardinality({p \in Pairs : HasSeries(p)})
           /\ Cardinality({p \in Pairs : HasSeries(p)}) = 1 => Len(report) = 1

\* a finished run whose map holds a series with a non-zero score for one
\* pair, a series for a second pair and a series under a key of no pair: a
\* report of two rows
C6_Witness ==
    /\ mpc = "exit0"
    /\ Len(report) = 2
    /\ \E k \in 1..Len(report) :
          report[k].karma_Kn.mant # 0 /\ report[k].mass_load.mant # 0
    /\ "CAP-LP:Nitrate" \in DOMAIN seriesByKey

\* C7: the rows of the report stand in the order of the node list, and within
\* one node in the order of the contaminant list, in whatever order the lines
\* of the series were read.
C7_ReportInCatalogueOrder ==
    \A a, b \in 1..Len(report) :
        a < b =>
            \/ NodeIndex(report[a].node_id) < NodeIndex(report[b].node_id)
            \/ /\ NodeIndex(report[a].node_id) = NodeIndex(report[b].node_id)
               /\ ContaminantIndex(report[a].contaminant)
                    < ContaminantIndex(report[b].contaminant)

\* a finished report of three rows, two of one node, where the series of the
\* first row was the last to be read
C7_Witness ==
    /\ mpc = "exit0"
    /\ Len(report) = 3
    /\ report[1].node_id = report[2].node_id
    /\ line.nodeId = report[1].node_id
    /\ line.cid = report[1].contaminant

\* A field that is a number as a whole: an optional sign, then digits only.
WellFormedNumber(f) ==
    LET j == IF Len(f) >= 1 /\ f[1] \in {"-", "+"} THEN 2 ELSE 1
    IN  /\ j <= Len(f)
        /\ \A i \in j..Len(f) : IsDigit(f[i])

\* C8: a line of at least 6 fields with a malformed t, Cin, Cout or Q field
\* makes the loader fail, and a failed load ends the run with no call of the
\* engine and no report row.
C8_MalformedFieldAbortsRun ==
    [][/\ (/\ mpc = "parse"
           /\ line.nfields >= 6
           /\ \E f \in {line.t, line.Cin, line.Cout, line.Q} : ~WellFormedNumber(f))
            => mpc' = "aborted"
       /\ mpc' = "aborted" => (report' = <<>> /\ header' = "" /\ pc' = "idle")]_vars
=============================================================================
